---- MODULE Spec2Model ----
(***************************************************************************)
(* A model of the SQL chatbot of src/app.py: one browser session of the    *)
(* Streamlit script main(), the process-wide connection cache of           *)
(* create_database_connection, and the session's transcript and audit log. *)
(*                                                                         *)
(* A script run is a sequence of steps (pc); between two steps the user    *)
(* may interact with a widget, the clock may advance and the embedded      *)
(* database file may be removed or restored.  Streamlit's st.stop() and    *)
(* st.rerun(), and a widget interaction during a run, end the run by an    *)
(* exception that derives from BaseException: the `except Exception`       *)
(* handlers of app.py do not catch it.                                     *)
(***************************************************************************)
EXTENDS Integers, Sequences, FiniteSets, TLC

VARIABLES
    api_key,        \* sidebar text input "Groq API Key" (a sequence of characters)
    db_type,        \* sidebar selectbox: SQLITE or MYSQL
    mysql_config,   \* the dict get_database_config returns
    file_exists,    \* whether student.db is on disk
    now,            \* the clock, in seconds
    ticks,          \* how many times the clock has advanced
    cache,          \* entries of st.cache_resource for create_database_connection
    nextHandle,     \* number of SQLDatabase objects constructed so far
    probed,         \* handles whose 'SELECT 1' probe succeeded
    messages,       \* st.session_state.messages (<<>>: key not in session_state)
    query_history,  \* st.session_state.query_history (<<>>: absent or empty)
    chat_ui,        \* whether the reset buttons and the chat input are on screen
    pc,             \* position of the running script ("idle": no run in progress)
    clicked,        \* the button whose click triggered this run
    user_query,     \* what st.chat_input returns in this run
    is_valid,       \* main's local is_valid
    error_message,  \* main's local error_message
    db,             \* main's local db (a handle)
    agent,          \* main's local agent (the handle it was built on)
    response,       \* main's local response
    events          \* what this run has done and displayed so far, in order

vars == <<api_key, db_type, mysql_config, file_exists, now, ticks, cache,
          nextHandle, probed, messages, query_history, chat_ui, pc, clicked,
          user_query, is_valid, error_message, db, agent, response, events>>

env_vars == <<file_exists, now, ticks>>
widget_vars == <<api_key, db_type, mysql_config>>
cache_vars == <<cache, nextHandle, probed>>
session_vars == <<messages, query_history>>
local_vars == <<is_valid, error_message, db, agent, response>>

-----------------------------------------------------------------------------
(* Constants of the program *)

SQLITE == "SQLITE"
MYSQL == "MYSQL"
CACHE_TTL == 7200
MAX_QUERY_HISTORY == 50

(* Bounds of the model *)

MaxKeyLen == 2       \* longest API key enumerated for validate_inputs
MaxTicks == 2        \* clock advances in one behaviour
MaxHandles == 2      \* SQLDatabase objects constructed in one behaviour
MaxMessages == 4     \* a question is submitted only below this transcript length
MaxAudit == 2        \* a question is submitted only below this audit-log length
MaxSaves == 53       \* save_query_history calls in one behaviour of SpecHistory

-----------------------------------------------------------------------------
(* Python values *)

Str(s) == [type |-> "str", value |-> s]
Dict(q, a) == [type |-> "dict", input |-> q, output |-> a]
None == [type |-> "none"]

Whitespace == {" ", "\t"}
EmptyDict == [f \in {} |-> <<>>]
NoHandle == 0
NoQuery == ""
Questions == {"q1"}
Answers == {"a1"}
GreetingText == "Hello! I'm your SQL assistant. Ask me anything about your database!"
Greeting == [role |-> "assistant", content |-> Str(GreetingText)]

RECURSIVE lstrip(_)
lstrip(s) ==
    IF s = <<>> THEN s
    ELSE IF Head(s) \in Whitespace THEN lstrip(Tail(s)) ELSE s

RECURSIVE rstrip(_)
rstrip(s) ==
    IF s = <<>> THEN s
    ELSE IF s[Len(s)] \in Whitespace THEN rstrip(SubSeq(s, 1, Len(s) - 1)) ELSE s

strip(s) == rstrip(lstrip(s))

required_fields == <<"host", "user", "password", "database">>

api_key_blank(k) == k = <<>> \/ Len(strip(k)) = 0

field_blank(cfg, f) ==
    \/ f \notin DOMAIN cfg
    \/ cfg[f] = <<>>
    \/ Len(strip(cfg[f])) = 0

RECURSIVE first_blank(_, _)
first_blank(cfg, i) ==
    IF i > Len(required_fields) THEN 0
    ELSE IF field_blank(cfg, required_fields[i]) THEN i
    ELSE first_blank(cfg, i + 1)

ApiKeyMessage == "Please enter your Groq API key"
FieldMessage(f) ==
    CASE f = "host" -> "Please provide MySQL host"
      [] f = "user" -> "Please provide MySQL user"
      [] f = "password" -> "Please provide MySQL password"
      [] f = "database" -> "Please provide MySQL database"

\* validate_inputs without the strip() tests: only empty values are refused.
validate_inputs_no_strip(k, t, cfg) ==
    IF k = <<>> THEN <<FALSE, ApiKeyMessage>>
    ELSE IF t = MYSQL /\ \E i \in 1..4 : cfg[required_fields[i]] = <<>>
         THEN <<FALSE, FieldMessage(required_fields[
                    CHOOSE i \in 1..4 : /\ cfg[required_fields[i]] = <<>>
                                        /\ \A j \in 1..(i-1) : cfg[required_fields[j]] # <<>>])>>
         ELSE <<TRUE, "">>

validate_inputs(k, t, cfg) ==
    IF api_key_blank(k) THEN <<FALSE, ApiKeyMessage>>
    ELSE IF t = MYSQL /\ first_blank(cfg, 1) # 0
         THEN <<FALSE, FieldMessage(required_fields[first_blank(cfg, 1)])>>
         ELSE <<TRUE, "">>

Validation == validate_inputs(api_key, db_type, mysql_config)

-----------------------------------------------------------------------------
(* The connection cache: @st.cache_resource(ttl=Config.CACHE_TTL) *)

cache_key(t, cfg) == <<t, cfg>>

\* The freshness test with the boundary second still inside the window.
cache_fresh_inclusive(e, t) == t <= e.created + CACHE_TTL

cache_fresh(e, t) == t < e.created + CACHE_TTL

cache_lookup(c, key, t) == {e \in c : e.key = key /\ cache_fresh(e, t)}

cache_store(c, key, h, t) ==
    {e \in c : e.key # key /\ cache_fresh(e, t)}
        \cup {[key |-> key, handle |-> h, created |-> t]}

\* The connector without the existence test of student.db.
file_missing_unchecked(t, exists) == FALSE

file_missing(t, exists) == t = SQLITE /\ ~exists

-----------------------------------------------------------------------------
(* The audit log: save_query_history *)

\* save_query_history keeping the first MAX_QUERY_HISTORY entries, not the last.
save_query_history_keep_oldest(history, timestamp, query, resp) ==
    LET appended == Append(history,
            [timestamp |-> timestamp, query |-> query, response |-> resp])
    IN  IF Len(appended) > MAX_QUERY_HISTORY
        THEN SubSeq(appended, 1, MAX_QUERY_HISTORY)
        ELSE appended

save_query_history(history, timestamp, query, resp) ==
    LET appended == Append(history,
            [timestamp |-> timestamp, query |-> query, response |-> resp])
    IN  IF Len(appended) > MAX_QUERY_HISTORY
        THEN SubSeq(appended, Len(appended) - MAX_QUERY_HISTORY + 1, Len(appended))
        ELSE appended

UserTurn(q) == [role |-> "user", content |-> Str(q)]
AssistantTurn(content) == [role |-> "assistant", content |-> content]
ErrorText == "Error processing query: agent failed"

-----------------------------------------------------------------------------
(* Initial state: a new session, nothing cached, no run in progress *)

ApiKeys == {<<>>, <<"k">>}
FullConfig == [host |-> <<"h">>, user |-> <<"u">>, password |-> <<"p">>,
               database |-> <<"d">>]
BlankFields == [host |-> <<>>, user |-> <<>>, password |-> <<>>, database |-> <<>>]
DbChoices == {<<SQLITE, EmptyDict>>, <<MYSQL, BlankFields>>, <<MYSQL, FullConfig>>}
TimeSteps == {1, CACHE_TTL - 1}

Init ==
    /\ api_key = <<>>
    /\ db_type = SQLITE
    /\ mysql_config = EmptyDict
    /\ file_exists \in BOOLEAN
    /\ now = 0
    /\ ticks = 0
    /\ cache = {}
    /\ nextHandle = 0
    /\ probed = {}
    /\ messages = <<>>
    /\ query_history = <<>>
    /\ chat_ui = FALSE
    /\ pc = "validate"
    /\ clicked = "none"
    /\ user_query = NoQuery
    /\ is_valid = FALSE
    /\ error_message = ""
    /\ db = NoHandle
    /\ agent = NoHandle
    /\ response = None
    /\ events = <<>>

-----------------------------------------------------------------------------
(* The environment *)

Tick ==
    /\ ticks < MaxTicks
    /\ \E d \in TimeSteps : now' = now + d
    /\ ticks' = ticks + 1
    /\ UNCHANGED <<file_exists, widget_vars, cache_vars, session_vars, chat_ui,
                   pc, clicked, user_query, local_vars, events>>

RemoveFile ==
    /\ file_exists
    /\ file_exists' = FALSE
    /\ UNCHANGED <<now, ticks, widget_vars, cache_vars, session_vars, chat_ui,
                   pc, clicked, user_query, local_vars, events>>

RestoreFile ==
    /\ ~file_exists
    /\ file_exists' = TRUE
    /\ UNCHANGED <<now, ticks, widget_vars, cache_vars, session_vars, chat_ui,
                   pc, clicked, user_query, local_vars, events>>

-----------------------------------------------------------------------------
(* The user.  A widget interaction starts a script run; when a run is in   *)
(* progress it is abandoned at its next st.* call and the new run starts.  *)
(* The positions of YieldPoints are those whose next statement is an st.*  *)
(* call; lines 370-376 (the two appends after st.write) hold none.  An     *)
(* edit of the connection form is one interaction that leaves the form in  *)
(* one of DbChoices.                                                       *)

YieldPoints == {"validate", "llm", "connect", "agent", "chat", "buttons",
                "input", "invoke", "write", "error", "rerun"}

CanInteract == pc \in YieldPoints \cup {"idle"}

StartRun(click, q) ==
    /\ pc' = "validate"
    /\ clicked' = click
    /\ user_query' = q
    /\ is_valid' = FALSE
    /\ error_message' = ""
    /\ db' = NoHandle
    /\ agent' = NoHandle
    /\ response' = None
    /\ events' = <<>>

EditApiKey ==
    /\ CanInteract
    /\ \E k \in ApiKeys \ {api_key} : api_key' = k
    /\ StartRun("none", NoQuery)
    /\ UNCHANGED <<db_type, mysql_config, env_vars, cache_vars, session_vars, chat_ui>>

EditDatabase ==
    /\ CanInteract
    /\ \E c \in DbChoices \ {<<db_type, mysql_config>>} :
            /\ db_type' = c[1]
            /\ mysql_config' = c[2]
    /\ StartRun("none", NoQuery)
    /\ UNCHANGED <<api_key, env_vars, cache_vars, session_vars, chat_ui>>

ClickClearChat ==
    /\ CanInteract
    /\ chat_ui
    /\ StartRun("clear_chat", NoQuery)
    /\ UNCHANGED <<widget_vars, env_vars, cache_vars, session_vars, chat_ui>>

ClickClearQueryHistory ==
    /\ CanInteract
    /\ chat_ui
    /\ StartRun("clear_history", NoQuery)
    /\ UNCHANGED <<widget_vars, env_vars, cache_vars, session_vars, chat_ui>>

SubmitQuestion ==
    /\ CanInteract
    /\ chat_ui
    /\ Len(messages) < MaxMessages
    /\ Len(query_history) < MaxAudit
    /\ \E q \in Questions : StartRun("none", q)
    /\ UNCHANGED <<widget_vars, env_vars, cache_vars, session_vars, chat_ui>>

-----------------------------------------------------------------------------
(* The script run: main() *)

Stop(shown) ==
    /\ events' = events \o shown
    /\ pc' = "idle"
    /\ chat_ui' = FALSE

\* The validation step without st.stop(): the error is shown and the run goes on.
Validate_no_stop ==
    /\ pc = "validate"
    /\ is_valid' = Validation[1]
    /\ error_message' = Validation[2]
    /\ events' = Append(events, IF Validation[1] THEN "valid" ELSE "error:validation")
    /\ pc' = "llm"
    /\ UNCHANGED <<widget_vars, env_vars, cache_vars, session_vars, clicked,
                   user_query, db, agent, response, chat_ui>>

Validate ==
    /\ pc = "validate"
    /\ is_valid' = Validation[1]
    /\ error_message' = Validation[2]
    /\ IF Validation[1]
       THEN /\ events' = Append(events, "valid")
            /\ pc' = "llm"
            /\ UNCHANGED chat_ui
       ELSE Stop(<<"error:validation">>)
    /\ UNCHANGED <<widget_vars, env_vars, cache_vars, session_vars, clicked,
                   user_query, db, agent, response>>

CheckModel ==
    /\ pc = "llm"
    /\ \E ok \in BOOLEAN :
        IF ok
        THEN /\ events' = Append(events, "llm")
             /\ pc' = "connect"
             /\ UNCHANGED chat_ui
        ELSE Stop(<<"llm", "error:invalid_api_key">>)
    /\ UNCHANGED <<widget_vars, env_vars, cache_vars, session_vars, clicked,
                   user_query, local_vars>>

\* A cached entry inside its window is returned without running the body.
\* Otherwise the body runs: st.stop() when student.db is absent; else the
\* engine and the SQLDatabase are built and 'SELECT 1' is issued, any of which
\* may raise ('connection failed'); a result is cached only on return.
ConnectDatabase ==
    /\ pc = "connect"
    /\ LET key == cache_key(db_type, mysql_config)
           live == cache_lookup(cache, key, now)
       IN  IF live # {}
           THEN /\ db' = (CHOOSE e \in live : TRUE).handle
                /\ events' = Append(events, "cache_hit")
                /\ pc' = "agent"
                /\ UNCHANGED <<cache_vars, chat_ui>>
           ELSE IF file_missing(db_type, file_exists)
           THEN /\ Stop(<<"error:file_not_found">>)
                /\ UNCHANGED <<cache_vars, db>>
           ELSE /\ nextHandle < MaxHandles
                /\ \E outcome \in {"connected", "probe_failed", "engine_failed"} :
                    CASE outcome = "connected" ->
                            /\ nextHandle' = nextHandle + 1
                            /\ probed' = probed \cup {nextHandle'}
                            /\ cache' = cache_store(cache, key, nextHandle', now)
                            /\ db' = nextHandle'
                            /\ events' = events \o <<"construct", "probe">>
                            /\ pc' = "agent"
                            /\ UNCHANGED chat_ui
                      [] outcome = "probe_failed" ->
                            /\ nextHandle' = nextHandle + 1
                            /\ Stop(<<"construct", "probe", "error:connection_failed">>)
                            /\ UNCHANGED <<probed, cache, db>>
                      [] outcome = "engine_failed" ->
                            /\ Stop(<<"error:connection_failed">>)
                            /\ UNCHANGED <<cache_vars, db>>
    /\ UNCHANGED <<widget_vars, env_vars, session_vars, clicked, user_query,
                   is_valid, error_message, agent, response>>

CreateAgent ==
    /\ pc = "agent"
    /\ \E ok \in BOOLEAN :
        IF ok
        THEN /\ agent' = db
             /\ events' = Append(events, "agent")
             /\ pc' = "chat"
             /\ UNCHANGED chat_ui
        ELSE /\ Stop(<<"error:agent">>)
             /\ UNCHANGED agent
    /\ UNCHANGED <<widget_vars, env_vars, cache_vars, session_vars, clicked,
                   user_query, is_valid, error_message, db, response>>

InitChat ==
    /\ pc = "chat"
    /\ messages' = IF messages = <<>> THEN <<Greeting>> ELSE messages
    /\ pc' = "buttons"
    /\ UNCHANGED <<widget_vars, env_vars, cache_vars, query_history, chat_ui,
                   clicked, user_query, local_vars, events>>

\* The reset buttons with one handler for both: either click clears both lists.
Buttons_clear_both ==
    /\ pc = "buttons"
    /\ chat_ui' = TRUE
    /\ IF clicked \in {"clear_chat", "clear_history"}
       THEN /\ messages' = <<Greeting>>
            /\ query_history' = <<>>
            /\ events' = Append(events, clicked)
            /\ pc' = "rerun"
       ELSE /\ pc' = "input"
            /\ UNCHANGED <<session_vars, events>>
    /\ UNCHANGED <<widget_vars, env_vars, cache_vars, clicked, user_query, local_vars>>

Buttons ==
    /\ pc = "buttons"
    /\ chat_ui' = TRUE
    /\ IF clicked = "clear_chat"
       THEN /\ messages' = <<Greeting>>
            /\ events' = Append(events, "clear_chat")
            /\ pc' = "rerun"
            /\ UNCHANGED query_history
       ELSE IF clicked = "clear_history"
       THEN /\ query_history' = <<>>
            /\ events' = Append(events, "clear_history")
            /\ pc' = "rerun"
            /\ UNCHANGED messages
       ELSE /\ pc' = "input"
            /\ UNCHANGED <<session_vars, events>>
    /\ UNCHANGED <<widget_vars, env_vars, cache_vars, clicked, user_query, local_vars>>

Rerun ==
    /\ pc = "rerun"
    /\ StartRun("none", NoQuery)
    /\ UNCHANGED <<widget_vars, env_vars, cache_vars, session_vars, chat_ui>>

ChatInput ==
    /\ pc = "input"
    /\ IF user_query # NoQuery
       THEN /\ messages' = Append(messages, UserTurn(user_query))
            /\ events' = Append(events, "user_turn")
            /\ pc' = "invoke"
       ELSE /\ pc' = "idle"
            /\ UNCHANGED <<messages, events>>
    /\ UNCHANGED <<widget_vars, env_vars, cache_vars, query_history, chat_ui,
                   clicked, user_query, local_vars>>

\* agent.invoke returns the executor's output mapping, {"input", "output"},
\* or raises; the mapping is what main binds to response.
InvokeAgent ==
    /\ pc = "invoke"
    /\ \/ \E a \in Answers :
            /\ response' = Dict(user_query, a)
            /\ events' = Append(events, "invoke_returned")
            /\ pc' = "write"
       \/ /\ events' = Append(events, "invoke_raised")
          /\ pc' = "error"
          /\ UNCHANGED response
    /\ UNCHANGED <<widget_vars, env_vars, cache_vars, session_vars, chat_ui,
                   clicked, user_query, is_valid, error_message, db, agent>>

WriteResponse ==
    /\ pc = "write"
    /\ pc' = "append"
    /\ UNCHANGED <<widget_vars, env_vars, cache_vars, session_vars, chat_ui,
                   clicked, user_query, local_vars, events>>

AppendAssistant ==
    /\ pc = "append"
    /\ messages' = Append(messages, AssistantTurn(response))
    /\ events' = Append(events, "assistant_turn")
    /\ pc' = "save"
    /\ UNCHANGED <<widget_vars, env_vars, cache_vars, query_history, chat_ui,
                   clicked, user_query, local_vars>>

SaveHistory ==
    /\ pc = "save"
    /\ query_history' = save_query_history(query_history, now, Str(user_query), response)
    /\ events' = Append(events, "audit_entry")
    /\ pc' = "idle"
    /\ UNCHANGED <<widget_vars, env_vars, cache_vars, messages, chat_ui,
                   clicked, user_query, local_vars>>

ReportError ==
    /\ pc = "error"
    /\ messages' = Append(messages, AssistantTurn(Str(ErrorText)))
    /\ events' = Append(events, "error_turn")
    /\ pc' = "idle"
    /\ UNCHANGED <<widget_vars, env_vars, cache_vars, query_history, chat_ui,
                   clicked, user_query, local_vars>>

Next ==
    \/ Tick
    \/ RemoveFile
    \/ RestoreFile
    \/ EditApiKey
    \/ EditDatabase
    \/ ClickClearChat
    \/ ClickClearQueryHistory
    \/ SubmitQuestion
    \/ Validate
    \/ CheckModel
    \/ ConnectDatabase
    \/ CreateAgent
    \/ InitChat
    \/ Buttons
    \/ Rerun
    \/ ChatInput
    \/ InvokeAgent
    \/ WriteResponse
    \/ AppendAssistant
    \/ SaveHistory
    \/ ReportError

Spec == Init /\ [][Next]_vars

(* The session with its environment, without question submissions: the     *)
(* runs that the sidebar widgets and the two reset buttons trigger.        *)
NextConnection ==
    \/ Tick
    \/ RemoveFile
    \/ RestoreFile
    \/ EditApiKey
    \/ EditDatabase
    \/ ClickClearChat
    \/ ClickClearQueryHistory
    \/ Validate
    \/ CheckModel
    \/ ConnectDatabase
    \/ CreateAgent
    \/ InitChat
    \/ Buttons
    \/ Rerun
    \/ ChatInput

SpecConnection == Init /\ [][NextConnection]_vars

(* The session in a fixed environment: the clock and the file stay as they *)
(* are at the start.                                                       *)
NextChat ==
    \/ EditApiKey
    \/ EditDatabase
    \/ ClickClearChat
    \/ ClickClearQueryHistory
    \/ SubmitQuestion
    \/ Validate
    \/ CheckModel
    \/ ConnectDatabase
    \/ CreateAgent
    \/ InitChat
    \/ Buttons
    \/ Rerun
    \/ ChatInput
    \/ InvokeAgent
    \/ WriteResponse
    \/ AppendAssistant
    \/ SaveHistory
    \/ ReportError

SpecChat == Init /\ [][NextChat]_vars

-----------------------------------------------------------------------------
(* validate_inputs on its own: the inputs are drawn from bounded sets and  *)
(* the validation step of main() is applied to them.                       *)

KeyChars == {" ", "\t", "k"}
KeyStrings == UNION {[1..n -> KeyChars] : n \in 0..MaxKeyLen}
FieldValues == {<<>>, <<" ">>, <<"v">>, <<" ", "v">>, <<"\t", " ">>}
FieldConfigs == [{"host", "user", "password", "database"} -> FieldValues]
ValidateInputs ==
    ({SQLITE} \X ({EmptyDict} \cup FieldConfigs)) \cup ({MYSQL} \X FieldConfigs)

InitValidate ==
    /\ api_key \in KeyStrings
    /\ \E c \in ValidateInputs :
            /\ db_type = c[1]
            /\ mysql_config = c[2]
    /\ file_exists = TRUE
    /\ now = 0
    /\ ticks = 0
    /\ cache = {}
    /\ nextHandle = 0
    /\ probed = {}
    /\ messages = <<>>
    /\ query_history = <<>>
    /\ chat_ui = FALSE
    /\ pc = "validate"
    /\ clicked = "none"
    /\ user_query = NoQuery
    /\ is_valid = FALSE
    /\ error_message = ""
    /\ db = NoHandle
    /\ agent = NoHandle
    /\ response = None
    /\ events = <<>>

NextValidate == Validate

SpecValidate == InitValidate /\ [][NextValidate]_vars

-----------------------------------------------------------------------------
(* The audit log on its own: any sequence of save_query_history calls and  *)
(* 'Clear Query History' actions.  Every call reads a later clock value.   *)

InitHistory ==
    /\ api_key = <<"k">>
    /\ db_type = SQLITE
    /\ mysql_config = EmptyDict
    /\ file_exists = TRUE
    /\ now = 0
    /\ ticks = 0
    /\ cache = {}
    /\ nextHandle = 0
    /\ probed = {}
    /\ messages = <<Greeting>>
    /\ query_history = <<>>
    /\ chat_ui = TRUE
    /\ pc = "idle"
    /\ clicked = "none"
    /\ user_query = NoQuery
    /\ is_valid = TRUE
    /\ error_message = ""
    /\ db = NoHandle
    /\ agent = NoHandle
    /\ response = None
    /\ events = <<>>

CallSaveQueryHistory ==
    /\ now < MaxSaves
    /\ now' = now + 1
    /\ \E q \in Questions, a \in Answers :
            query_history' = save_query_history(query_history, now', Str(q), Dict(q, a))
    /\ UNCHANGED <<widget_vars, file_exists, ticks, cache_vars, messages, chat_ui,
                   pc, clicked, user_query, local_vars, events>>

CallClearQueryHistory ==
    /\ query_history' = <<>>
    /\ UNCHANGED <<widget_vars, env_vars, cache_vars, messages, chat_ui,
                   pc, clicked, user_query, local_vars, events>>

NextHistory ==
    \/ CallSaveQueryHistory
    \/ CallClearQueryHistory

SpecHistory == InitHistory /\ [][NextHistory]_vars

-----------------------------------------------------------------------------
(* Vocabulary of the properties *)

Last(seq) == seq[Len(seq)]

\* Blank as the contract words it: empty, or whitespace only.
IsBlank(s) == \A i \in 1..Len(s) : s[i] \in {" ", "\t"}

RemoteFields == <<"host", "user", "password", "database">>

RemoteBlankAt(i) == IsBlank(mysql_config[RemoteFields[i]])

RemoteBlank == db_type = "MYSQL" /\ \E i \in 1..4 : RemoteBlankAt(i)

InputsValid == ~IsBlank(api_key) /\ ~RemoteBlank

\* C1: validate_inputs fails exactly when the API key is blank, or db_type is
\* MYSQL and one of host, user, password, database is blank; the API-key message
\* takes precedence, a remote failure names the first blank field in the order
\* host, user, password, database; for SQLITE the remote fields play no part;
\* success comes with an empty message.
C1_ValidateContract ==
    pc # "validate" =>
        /\ is_valid = InputsValid
        /\ IsBlank(api_key) => error_message = "Please enter your Groq API key"
        /\ (~IsBlank(api_key) /\ RemoteBlank) =>
                \E i \in 1..4 :
                    /\ RemoteBlankAt(i)
                    /\ \A j \in 1..(i - 1) : ~RemoteBlankAt(j)
                    /\ error_message = FieldMessage(RemoteFields[i])
        /\ (db_type = "SQLITE" /\ ~IsBlank(api_key)) => is_valid
        /\ is_valid => error_message = ""

\* C1 witness: a whitespace-only password after a filled host and user, with a
\* blank database name behind it, is reported as the missing password.
C1_Witness ==
    /\ pc = "idle"
    /\ db_type = "MYSQL"
    /\ api_key = <<" ", "k">>
    /\ mysql_config["host"] = <<" ", "v">>
    /\ mysql_config["user"] = <<"v">>
    /\ mysql_config["password"] = <<"\t", " ">>
    /\ mysql_config["database"] = <<>>
    /\ ~is_valid
    /\ error_message = "Please provide MySQL password"

\* In SpecHistory the clock moves with each save_query_history call and with
\* nothing else.
SaveCalled == now' # now

\* C4: the audit log never holds more than MAX_QUERY_HISTORY entries; a save
\* below the cap appends one entry, a save at the cap drops exactly the oldest
\* entry and keeps the other 49 in order, followed by the new one.
C4_HistoryCap ==
    /\ [](Len(query_history) <= 50)
    /\ [][SaveCalled =>
            /\ query_history' # <<>>
            /\ Last(query_history').timestamp = now'
            /\ IF Len(query_history) = 50
               THEN /\ Len(query_history') = 50
                    /\ SubSeq(query_history', 1, 49) = Tail(query_history)
               ELSE SubSeq(query_history', 1, Len(query_history')-1) = query_history
          ]_vars

\* C4 witness: a full log whose oldest entries have been evicted.
C4_Witness ==
    /\ Len(query_history) = 50
    /\ query_history[1].timestamp = 3
    /\ query_history[50].timestamp = 52

\* C6: the 'Clear Chat History' handler leaves exactly the greeting in the
\* transcript and does not touch the audit log; the 'Clear Query History'
\* handler empties the audit log and does not touch the transcript.
C6_ResetFrames ==
    [][(pc = "buttons" /\ pc' \notin {"buttons", "validate"}) =>
            /\ clicked = "clear_chat" =>
                    /\ messages' = <<Greeting>>
                    /\ query_history' = query_history
            /\ clicked = "clear_history" =>
                    /\ query_history' = <<>>
                    /\ messages' = messages
      ]_vars

\* C6 witness: the chat was cleared while the transcript held a question and its
\* answer is still in the audit log.
C6_Witness ==
    /\ pc = "rerun"
    /\ Last(events) = "clear_chat"
    /\ messages = <<Greeting>>
    /\ Len(query_history) = 1

NetworkEvents == {"llm", "construct", "probe", "invoke_returned", "invoke_raised"}

\* C8: a run makes no network call (model liveness call, database connect or
\* probe, agent invocation) unless validate_inputs succeeded in it; a run whose
\* validation fails stops there, showing the error, with no model call, no
\* connection, no agent and the transcript and audit log as they were.
C8_ValidationGate ==
    /\ []((\E i \in DOMAIN events : events[i] \in NetworkEvents \cup {"agent", "cache_hit"})
            => (is_valid /\ InputsValid))
    /\ [][(pc = "validate" /\ pc' # "validate" /\ ~InputsValid) =>
            /\ pc' = "idle"
            /\ events' = <<"error:validation">>
            /\ ~is_valid'
            /\ error_message' # ""
            /\ agent' = NoHandle /\ db' = NoHandle
            /\ UNCHANGED <<messages, query_history, cache, nextHandle, probed>>
          ]_vars

\* C8 witness: a run stopped by validation in a session that has a transcript
\* and an audit entry.
C8_Witness ==
    /\ pc = "idle"
    /\ events = <<"error:validation">>
    /\ Len(messages) = 3
    /\ Len(query_history) = 1
    /\ cache # {}

-----------------------------------------------------------------------------
(* The connector *)

\* The step of a run that calls create_database_connection.
ConnectorCalled == pc = "connect" /\ pc' \in {"agent", "idle"}

\* The cached entries for the configuration of this run.
Cached == {e \in cache : e.key = <<db_type, mysql_config>>}

InWindow(e) == now - e.created < 7200

AgentGuarded ==
    (agent # NoHandle \/ (\E i \in DOMAIN events : events[i] = "agent")) =>
        /\ is_valid
        /\ InputsValid
        /\ db # NoHandle
        /\ db \in probed
        /\ agent = db

\* C2 as stated: an agent is built only after validation succeeded and the
\* connector returned a probed handle, and whenever student.db is absent the
\* connector stops the run with the 'file not found' error.
C2_Original ==
    /\ []AgentGuarded
    /\ [][(ConnectorCalled /\ db_type = "SQLITE" /\ ~file_exists) =>
            /\ pc' = "idle"
            /\ Last(events') = "error:file_not_found"
          ]_vars

\* C2 as amended: an agent is built only after validation succeeded and the
\* connector returned a probed handle; when student.db is absent and no cached
\* SQLITE handle is within its window, the connector stops the run with the
\* 'file not found' error, constructs nothing and caches nothing, so that
\* the next run meets the same case.
C2_AgentAfterProbe ==
    /\ []AgentGuarded
    /\ [][(/\ ConnectorCalled
           /\ db_type = "SQLITE"
           /\ ~file_exists
           /\ \A e \in Cached : ~InWindow(e)) =>
            /\ pc' = "idle"
            /\ Last(events') = "error:file_not_found"
            /\ \A i \in DOMAIN events' : events'[i] \notin {"error:connection_failed", "agent"}
            /\ agent' = NoHandle
            /\ UNCHANGED <<cache, nextHandle, probed>>
          ]_vars

\* C2 witness: a run stopped by the missing file although an expired SQLITE
\* handle is still in the cache.
C2_Witness ==
    /\ pc = "idle"
    /\ ~file_exists
    /\ events = <<"valid", "llm", "error:file_not_found">>
    /\ \E e \in cache : e.key[1] = "SQLITE" /\ ~InWindow(e)

\* What a call inside the cache window does: the cached handle, nothing new.
ServedFromCache(e) ==
    /\ pc' = "agent"
    /\ db' = e.handle
    /\ events' = Append(events, "cache_hit")
    /\ UNCHANGED <<cache, nextHandle, probed>>

\* What a call that runs the connector body to the probe does.
ProbedAgain ==
    /\ nextHandle' = nextHandle + 1
    /\ \E shown \in {<<>>, <<"error:connection_failed">>} :
            events' = events \o <<"construct", "probe">> \o shown
    /\ pc' = "agent" =>
            /\ db' = nextHandle'
            /\ db' \notin {e.handle : e \in cache}
            /\ \E e \in cache' :
                    /\ e.key = <<db_type, mysql_config>>
                    /\ e.handle = db'
                    /\ e.created = now

\* What a call that stops the run before any probe does.
StoppedBeforeProbe ==
    /\ pc' = "idle"
    /\ \E shown \in {"error:file_not_found", "error:connection_failed"} :
            events' = Append(events, shown)
    /\ Last(events') = "error:file_not_found" <=> (db_type = "SQLITE" /\ ~file_exists)
    /\ UNCHANGED <<cache, nextHandle, probed>>

\* C3 as stated: inside the 7200-second window a call with the same
\* configuration returns the cached handle and issues no probe; the call after
\* the window constructs a new handle and issues the probe again.
C3_Original ==
    [][ConnectorCalled =>
            \A e \in Cached :
                IF InWindow(e) THEN ServedFromCache(e) ELSE ProbedAgain
      ]_vars

\* C3 as amended: inside the window the cached handle is returned and no probe
\* is issued; after the window the cached handle is not returned and the
\* connector body runs again: it constructs a new handle and issues the probe
\* again, unless it stops the run first (student.db absent: 'file not found';
\* the engine or the handle cannot be built: 'connection failed').  A handle
\* it returns is new, was probed in this call and starts a new window.
C3_CacheWindow ==
    [][ConnectorCalled =>
            \A e \in Cached :
                IF InWindow(e) THEN ServedFromCache(e)
                ELSE ProbedAgain \/ StoppedBeforeProbe
      ]_vars

\* C3 witness: a second handle for a configuration whose first handle expired.
C3_Witness ==
    /\ pc = "agent"
    /\ Last(events) = "probe"
    /\ db_type = "MYSQL"
    /\ db = 2
    /\ probed = {1, 2}
    /\ cache = {[key |-> <<db_type, mysql_config>>, handle |-> 2, created |-> 7200]}

-----------------------------------------------------------------------------
(* The turn handler *)

\* A step that ends the current run: the script finishes or stops, or a
\* widget interaction abandons it.
RunEnds == pc # "idle" /\ (pc' = "idle" \/ (pc' = "validate" /\ events' = <<>>))

\* What the run had done when it ended.
FinalEvents == IF pc' = "idle" THEN events' ELSE events

Count(seq, x) == Cardinality({i \in DOMAIN seq : seq[i] = x})

Invoked(result) == \E i \in DOMAIN FinalEvents : FinalEvents[i] = result

TurnEvents == {"user_turn", "invoke_returned", "invoke_raised", "assistant_turn",
               "error_turn", "audit_entry"}

\* C5 as stated: a run in which agent.invoke raised ends with exactly one
\* Assistant turn, the formatted error, appended after the question and no
\* Audit Entry; a run in which it returned ends with exactly one Assistant
\* turn and exactly one Audit Entry appended; the invocation is made once.
C5_Original ==
    [][(RunEnds /\ (Invoked("invoke_returned") \/ Invoked("invoke_raised"))) =>
            /\ Count(FinalEvents, "invoke_returned") + Count(FinalEvents, "invoke_raised") = 1
            /\ Len(messages') >= 2
            /\ messages'[Len(messages') - 1] = UserTurn(user_query)
            /\ Last(messages').role = "assistant"
            /\ Invoked("invoke_raised") =>
                    /\ Last(messages').content = Str(ErrorText)
                    /\ Count(FinalEvents, "error_turn") = 1
                    /\ Count(FinalEvents, "audit_entry") = 0
            /\ Invoked("invoke_returned") =>
                    /\ Count(FinalEvents, "assistant_turn") = 1
                    /\ Count(FinalEvents, "audit_entry") = 1
                    /\ query_history' # <<>>
      ]_vars

\* C7 as stated: a non-empty question at the chat input appends exactly one
\* User turn before the agent is invoked, an empty one appends nothing, and a
\* run in which the agent answered has appended the User turn, the Assistant
\* turn and the Audit Entry, in that order.
C7_Original ==
    [][/\ (pc = "input" /\ pc' \notin {"input", "validate"}) =>
            IF user_query # ""
            THEN /\ messages' = Append(messages, UserTurn(user_query))
                 /\ pc' = "invoke"
                 /\ \A i \in DOMAIN events : events[i] \notin TurnEvents
                 /\ UNCHANGED query_history
            ELSE UNCHANGED <<messages, query_history>>
       /\ (RunEnds /\ Invoked("invoke_returned")) =>
            SelectSeq(FinalEvents, LAMBDA e : e \in TurnEvents) =
                <<"user_turn", "invoke_returned", "assistant_turn", "audit_entry">>
      ]_vars

\* C9 as stated: after a successful invocation the Assistant turn's content and
\* the Audit Entry's response are the agent's answer text, and the entry's query
\* is the question.
C9_Original ==
    (events # <<>> /\ Last(events) = "audit_entry") =>
        /\ Last(messages).content = Str(response.output)
        /\ Last(query_history).response = Str(response.output)
        /\ Last(query_history).query = Str(user_query)

Role(i) == IF i % 2 = 0 THEN "user" ELSE "assistant"

\* C10 as stated: with no run in progress, an initialized transcript is the
\* greeting followed by (User turn, Assistant turn) pairs.
C10_Original ==
    (pc = "idle" /\ messages # <<>>) =>
        /\ messages[1] = Greeting
        /\ \A i \in DOMAIN messages : messages[i].role = Role(i)
        /\ Last(messages).role = "assistant"

====
